---------------------------- MODULE Spec2Model ----------------------------
(***************************************************************************)
(* Model of src/api.py: the CSV import pipeline (import_csv,               *)
(* insert_apartments_from_csv), the image URL resolver                     *)
(* (_resolve_image_url) and the row enricher (_attach_images) with the two *)
(* read endpoints that call it.                                            *)
(*                                                                         *)
(* Text is modelled as a sequence of one-character strings, so that        *)
(* strip(), replace(",", ""), float(), int() and Decimal() are computed on *)
(* the characters.  An optional value (Python None or a str) is a sequence *)
(* of length 0 (None) or 1 (the text).                                     *)
(*                                                                         *)
(* A path is a sequence of atoms: the separator "/" or a maximal run of    *)
(* non-separator characters, written as one string.                        *)
(*                                                                         *)
(* The database is PostgreSQL behind psycopg2: a connection opens a        *)
(* transaction at its first statement, a statement sees the committed rows *)
(* and the rows its own transaction wrote, commit() publishes them and     *)
(* close() without commit discards them.                                   *)
(***************************************************************************)
EXTENDS Integers, Sequences, FiniteSets, TLC

\* ------------------------------------------------------------------ bounds
MaxRows == 2
MaxReq == 2
MaxConcRows == 1
MaxPathLen == 8
MaxPics == 2
MaxListings == 2

\* ------------------------------------------------------------------ text
None == <<>>
Some(t) == <<t>>

Whitespace == {" "}
Digits == {"0", "1", "2", "3", "4", "5", "6", "7", "8", "9"}
DigitChars == <<"0", "1", "2", "3", "4", "5", "6", "7", "8", "9">>

DigitVal(c) == (CHOOSE i \in 1..Len(DigitChars) : DigitChars[i] = c) - 1

RECURSIVE LStrip(_)
LStrip(s) == IF s # <<>> /\ Head(s) \in Whitespace THEN LStrip(Tail(s)) ELSE s

RECURSIVE RStrip(_)
RStrip(s) ==
  IF s # <<>> /\ s[Len(s)] \in Whitespace THEN RStrip(SubSeq(s, 1, Len(s) - 1)) ELSE s

\* str.strip()
Strip(s) == RStrip(LStrip(s))

\* str.replace(",", "")
RemoveCommas(s) == SelectSeq(s, LAMBDA c : c # ",")

\* a or b or c or "" over optional texts: the first that is neither None nor ""
RECURSIVE FirstTruthy(_)
FirstTruthy(opts) ==
  IF opts = <<>> THEN <<>>
  ELSE IF Head(opts) # None /\ Head(opts)[1] # <<>> THEN Head(opts)[1]
  ELSE FirstTruthy(Tail(opts))

\* ------------------------------------------------------------------ numbers
HasSign(s) == s # <<>> /\ Head(s) \in {"+", "-"}
IsNegative(s) == s # <<>> /\ Head(s) = "-"
Unsigned(s) == IF HasSign(s) THEN Tail(s) ELSE s

AllDigits(s) == \A i \in 1..Len(s) : s[i] \in Digits

DotPos(s) == IF \E i \in 1..Len(s) : s[i] = "."
             THEN CHOOSE i \in 1..Len(s) : s[i] = "." /\ \A j \in 1..(i - 1) : s[j] # "."
             ELSE 0

IntPart(u) == IF DotPos(u) = 0 THEN u ELSE SubSeq(u, 1, DotPos(u) - 1)
FracPart(u) == IF DotPos(u) = 0 THEN <<>> ELSE SubSeq(u, DotPos(u) + 1, Len(u))

\* digits [ "." [digits] ] | "." digits
IsDecimalLiteral(u) ==
  /\ AllDigits(IntPart(u))
  /\ AllDigits(FracPart(u))
  /\ Len(IntPart(u)) + Len(FracPart(u)) >= 1

RECURSIVE DigitsValue(_)
DigitsValue(s) ==
  IF s = <<>> THEN 0 ELSE 10 * DigitsValue(SubSeq(s, 1, Len(s) - 1)) + DigitVal(s[Len(s)])

IsInf(u) == u = <<"i", "n", "f">>
IsNan(u) == u = <<"n", "a", "n">>

\* int(float(area_raw)): the integer, or the exception raised
IntOfFloat(s) ==
  LET u == Unsigned(s) IN
  IF IsInf(u) THEN [tag |-> "OverflowError", val |-> 0]
  ELSE IF IsNan(u) THEN [tag |-> "ValueError", val |-> 0]
  ELSE IF IsDecimalLiteral(u)
       THEN [tag |-> "ok",
             val |-> IF IsNegative(s) THEN 0 - DigitsValue(IntPart(u))
                     ELSE DigitsValue(IntPart(u))]
  ELSE [tag |-> "ValueError", val |-> 0]

\* Decimal(price_raw): the exact decimal coef * 10^exp, or InvalidOperation
DecimalOf(s) ==
  LET u == Unsigned(s) IN
  IF IsInf(u)
    THEN [tag |-> "ok", kind |-> "Infinity", neg |-> IsNegative(s), coef |-> 0, exp |-> 0]
  ELSE IF Len(u) >= 3 /\ IsNan(SubSeq(u, 1, 3)) /\ AllDigits(SubSeq(u, 4, Len(u)))
    THEN [tag |-> "ok", kind |-> "NaN", neg |-> IsNegative(s), coef |-> 0, exp |-> 0]
  ELSE IF IsDecimalLiteral(u)
    THEN [tag |-> "ok", kind |-> "finite", neg |-> IsNegative(s),
          coef |-> DigitsValue(IntPart(u) \o FracPart(u)),
          exp |-> 0 - Len(FracPart(u))]
  ELSE [tag |-> "InvalidOperation", kind |-> "none", neg |-> FALSE, coef |-> 0, exp |-> 0]


\* ------------------------------------------------------------------ CSV rows
\* One csv.DictReader row: each column the code reads, None when the column is
\* absent from the header or the line is too short.
Columns == {"title", "name", "url", "address", "adress", "area_m2", "area",
            "price_usd", "cost", "type"}

EmptyRow == [c \in Columns |-> None]

RowName(row) == Strip(FirstTruthy(<<row["title"], row["name"], row["url"]>>))
RowAddress(row) == Strip(FirstTruthy(<<row["address"], row["adress"]>>))
RowArea(row) == IntOfFloat(Strip(RemoveCommas(FirstTruthy(<<row["area_m2"], row["area"]>>))))
RowCost(row) == DecimalOf(Strip(RemoveCommas(FirstTruthy(<<row["price_usd"], row["cost"]>>))))
RowType(row) == Strip(FirstTruthy(<<row["type"], Some(<<"F", "l", "a", "t">>)>>))

\* What the loop body does with a row before it touches the database
RowOutcome(row) ==
  IF RowName(row) = <<>> \/ RowAddress(row) = <<>> THEN "skip"
  ELSE IF RowArea(row).tag = "ValueError" THEN "skip"
  ELSE IF RowArea(row).tag # "ok" THEN "raise"
  ELSE IF RowCost(row).tag # "ok" THEN "skip"
  ELSE "valid"

\* The rows the files of the model are made of
RowA ==
  [EmptyRow EXCEPT !["title"] = Some(<<"A">>), !["address"] = Some(<<"X">>),
                   !["area_m2"] = Some(<<"1", "2">>), !["price_usd"] = Some(<<"1">>)]
RowAPadded ==
  [EmptyRow EXCEPT !["title"] = Some(<<>>), !["name"] = Some(<<" ", "A", " ">>),
                   !["adress"] = Some(<<"X", " ">>), !["area"] = Some(<<"-", "5">>),
                   !["cost"] = Some(<<"2">>), !["type"] = Some(<<"H">>)]
RowB ==
  [EmptyRow EXCEPT !["title"] = Some(<<"B">>), !["address"] = Some(<<"X">>),
                   !["area_m2"] = Some(<<"1", ",", "2", ".", "7">>),
                   !["price_usd"] = Some(<<"1", ",", "2", ".", "5", "0">>)]
RowBlankAddress ==
  [EmptyRow EXCEPT !["title"] = Some(<<"B">>), !["address"] = Some(<<" ">>),
                   !["adress"] = Some(<<"X">>),
                   !["area_m2"] = Some(<<"5">>), !["price_usd"] = Some(<<"1">>)]
RowBadArea ==
  [EmptyRow EXCEPT !["title"] = Some(<<"A">>), !["address"] = Some(<<"X">>),
                   !["area_m2"] = Some(<<"x">>), !["price_usd"] = Some(<<"1">>)]
RowInfArea ==
  [EmptyRow EXCEPT !["title"] = Some(<<"B">>), !["address"] = Some(<<"X">>),
                   !["area_m2"] = Some(<<"i", "n", "f">>), !["price_usd"] = Some(<<"1">>)]
RowNoCost ==
  [EmptyRow EXCEPT !["title"] = Some(<<"B">>), !["address"] = Some(<<"X">>),
                   !["area_m2"] = Some(<<"5">>)]

\* A file is the sequence of the names of its rows
RowTable ==
  [A |-> RowA, APadded |-> RowAPadded, B |-> RowB, BlankAddress |-> RowBlankAddress,
   BadArea |-> RowBadArea, InfArea |-> RowInfArea, NoCost |-> RowNoCost]

Rows == DOMAIN RowTable
ConcRows == {"A", "B"}

\* The i-th row the reader yields
RowAt(file, i) == RowTable[file[i]]

\* What the loop computes from each row of the model, tabulated by row name
Parsed ==
  [r \in Rows |-> [outcome |-> RowOutcome(RowTable[r]),
                   name |-> RowName(RowTable[r]),
                   address |-> RowAddress(RowTable[r]),
                   error |-> RowArea(RowTable[r]).tag]]

FilesOver(rows, n) == UNION {[1..k -> rows] : k \in 0..n}
Files == FilesOver(Rows, MaxRows)
ConcFiles == FilesOver(ConcRows, MaxConcRows)

\* ------------------------------------------------------------------ state
Users == {1, 2}
UserIds == {1, 2, 3}
Workers == {1, 2}
SERVER_CSV == <<"/", "srv", "/", "homepass", "/", "homes.csv">>
CsvPaths == {None, Some(<<"a.csv">>)}

VARIABLES
  store,      \* table apartaments: the committed listings
  nextId,     \* the sequence behind apartaments.id
  pc,         \* per worker: "idle", "row", "insert", "commit"
  req,        \* per worker: the request it serves
  idx,        \* per worker: the file row the reader is at
  inserted,   \* per worker: the local counter of insert_apartments_from_csv
  pending,    \* per worker: rows its open transaction has inserted
  resp,       \* per worker: the last response it sent
  nreq,       \* requests received so far
  last,       \* the import that committed last, when the next request repeats it
              \* (same owner, same path, file unchanged); empty otherwise
  rerun,      \* history: whether the commit that set last repeated the one before
  abortedIds  \* history: ids inserted by imports that ended in an exception

importVars ==
  <<store, nextId, pc, req, idx, inserted, pending, resp, nreq, last, rerun, abortedIds>>

NoReq == [user_id |-> 0, path |-> <<>>, exists |-> FALSE, file |-> <<>>]
NoResp == [status |-> 0, detail |-> "", source_csv |-> <<>>, inserted_apartments |-> 0]

Range(s) == {s[i] : i \in 1..Len(s)}

\* Mutant of Visible: the lookup misses the rows of its own transaction
VisibleCommittedOnly(p) == store

\* The rows a statement of worker p's transaction sees
Visible(p) == store \cup Range(pending[p])

\* Mutant of RowExists: the lookup leaves the owner out
RowExistsAnyOwner(table, name, address, user_id) ==
  \E l \in table : l.name = name /\ l.adress = address

\* SELECT 1 FROM apartaments WHERE name = %s AND adress = %s AND user_id = %s
RowExists(table, name, address, user_id) ==
  \E l \in table : l.name = name /\ l.adress = address /\ l.user_id = user_id

\* Mutant of NewListing: the name is stored as read, not trimmed
NewListingRawName(id, user_id, row) ==
  [id |-> id, user_id |-> user_id,
   name |-> FirstTruthy(<<row["title"], row["name"], row["url"]>>),
   adress |-> RowAddress(row), area |-> RowArea(row).val,
   cost |-> [kind |-> RowCost(row).kind, neg |-> RowCost(row).neg,
             coef |-> RowCost(row).coef, exp |-> RowCost(row).exp],
   tokens |-> 0, type |-> RowType(row)]

\* INSERT INTO apartaments (user_id, name, adress, area, cost, tokens, type)
NewListing(id, user_id, row) ==
  [id |-> id, user_id |-> user_id, name |-> RowName(row), adress |-> RowAddress(row),
   area |-> RowArea(row).val,
   cost |-> [kind |-> RowCost(row).kind, neg |-> RowCost(row).neg,
             coef |-> RowCost(row).coef, exp |-> RowCost(row).exp],
   tokens |-> 0, type |-> RowType(row)]

\* ensure_user_exists
EnsureUserExists(user_id) == user_id \in Users

\* path = Path(csv_path) if csv_path else SERVER_CSV
ResolveCsvPath(csv_path) ==
  IF csv_path # None /\ csv_path[1] # <<>> THEN csv_path[1] ELSE SERVER_CSV

\* What the file at path can hold when a request reads it: any file of the model
\* at the default location, a file of at most one row elsewhere
DiskFiles(path, files) == IF path = SERVER_CSV THEN files ELSE {f \in files : Len(f) <= 1}

\* db.commit(): the transaction's rows join the committed table
Commit(table, rows) == table \cup Range(rows)

\* Mutant of CloseWithoutCommit: the connection commits as it closes
CloseCommitting(table, rows) == table \cup Range(rows)

\* conn.close() with the transaction open: its rows are discarded
CloseWithoutCommit(table, rows) == table

ImportInit ==
  /\ store = {}
  /\ nextId = 1
  /\ pc = [p \in Workers |-> "idle"]
  /\ req = [p \in Workers |-> NoReq]
  /\ idx = [p \in Workers |-> 0]
  /\ inserted = [p \in Workers |-> 0]
  /\ pending = [p \in Workers |-> <<>>]
  /\ resp = [p \in Workers |-> NoResp]
  /\ nreq = 0
  /\ last = <<>>
  /\ rerun = FALSE
  /\ abortedIds = {}

\* Mutant of Precheck: the file is checked before the owner
PrecheckPathFirst(user_id, exists) ==
  IF ~exists THEN "path not found"
  ELSE IF ~EnsureUserExists(user_id) THEN "User not found"
  ELSE "ok"

\* The two checks of import_csv before the pipeline runs, in their order
Precheck(user_id, exists) ==
  IF ~EnsureUserExists(user_id) THEN "User not found"
  ELSE IF ~exists THEN "path not found"
  ELSE "ok"

\* POST /import_csv up to the call of insert_apartments_from_csv and the opening
\* of the file.  disk is the file at the resolved path when the request reads it
\* (None: no such file).  A request that follows a commit recorded in last is
\* that request again.
ImportCsvBegin(p, files, alone) ==
  /\ pc[p] = "idle"
  /\ alone => \A q \in Workers : pc[q] = "idle"
  /\ nreq < MaxReq
  /\ nreq' = nreq + 1
  /\ \E user_id \in UserIds, csv_path \in CsvPaths :
     \E disk \in {None} \cup {Some(f) : f \in DiskFiles(ResolveCsvPath(csv_path), files)} :
       /\ last # <<>> =>
            /\ disk # None
            /\ last = <<[user_id |-> user_id, path |-> ResolveCsvPath(csv_path),
                         file |-> disk[1]]>>
       /\ req' = [req EXCEPT ![p] = [user_id |-> user_id,
                                     path |-> ResolveCsvPath(csv_path),
                                     exists |-> disk # None,
                                     file |-> IF Precheck(user_id, disk # None) = "ok"
                                                THEN disk[1] ELSE <<>>]]
       /\ IF Precheck(user_id, disk # None) = "User not found"
            THEN /\ resp' = [resp EXCEPT ![p] = [NoResp EXCEPT !.status = 404,
                                                              !.detail = "User not found"]]
                 /\ UNCHANGED <<pc, idx, inserted, pending>>
          ELSE IF Precheck(user_id, disk # None) = "path not found"
            THEN /\ resp' = [resp EXCEPT ![p] = [NoResp EXCEPT !.status = 404,
                                                              !.detail = "path not found",
                                                              !.source_csv = ResolveCsvPath(csv_path)]]
                 /\ UNCHANGED <<pc, idx, inserted, pending>>
          ELSE /\ pc' = [pc EXCEPT ![p] = "row"]
               /\ idx' = [idx EXCEPT ![p] = 1]
               /\ inserted' = [inserted EXCEPT ![p] = 0]
               /\ pending' = [pending EXCEPT ![p] = <<>>]
               /\ resp' = [resp EXCEPT ![p] = NoResp]
  /\ rerun' = FALSE
  /\ UNCHANGED <<store, nextId, last, abortedIds>>

\* One turn of the for loop up to the SELECT: validation, then the lookup.  An
\* exception the loop does not catch leaves import_csv before db.commit(); get_db
\* closes the connection and the request ends as a server fault.
ImportRow(p) ==
  /\ pc[p] = "row"
  /\ IF idx[p] > Len(req[p].file)
       THEN /\ pc' = [pc EXCEPT ![p] = "commit"]
            /\ UNCHANGED <<store, req, idx, inserted, pending, resp, last, abortedIds>>
     ELSE LET row == Parsed[req[p].file[idx[p]]] IN
       IF row.outcome = "raise"
         THEN /\ store' = CloseWithoutCommit(store, pending[p])
              /\ abortedIds' = abortedIds \cup {l.id : l \in Range(pending[p])}
              /\ pending' = [pending EXCEPT ![p] = <<>>]
              /\ pc' = [pc EXCEPT ![p] = "idle"]
              /\ resp' = [resp EXCEPT ![p] = [NoResp EXCEPT !.status = 500,
                                                            !.detail = row.error]]
              /\ req' = [req EXCEPT ![p] = NoReq]
              /\ idx' = [idx EXCEPT ![p] = 0]
              /\ inserted' = [inserted EXCEPT ![p] = 0]
              /\ last' = <<>>
       ELSE IF row.outcome = "skip"
                 \/ RowExists(Visible(p), row.name, row.address, req[p].user_id)
         THEN /\ idx' = [idx EXCEPT ![p] = idx[p] + 1]
              /\ UNCHANGED <<store, pc, req, inserted, pending, resp, last, abortedIds>>
       ELSE /\ pc' = [pc EXCEPT ![p] = "insert"]
            /\ UNCHANGED <<store, req, idx, inserted, pending, resp, last, abortedIds>>
  /\ UNCHANGED <<nextId, nreq, rerun>>

\* Mutant of InsertRow: a row whose key is committed meanwhile is dropped
InsertRowUnlessCommitted(committed, rows, listing) ==
  IF \E l \in committed : /\ l.name = listing.name /\ l.adress = listing.adress
                          /\ l.user_id = listing.user_id
    THEN rows ELSE Append(rows, listing)

\* The effect of the INSERT on the rows of the transaction: apartaments has no
\* constraint over the committed rows that the new row could violate
InsertRow(committed, rows, listing) == Append(rows, listing)

\* The INSERT of the row the lookup did not find, and inserted += 1
ImportInsert(p) ==
  /\ pc[p] = "insert"
  /\ pending' = [pending EXCEPT ![p] =
                   InsertRow(store, pending[p],
                             NewListing(nextId, req[p].user_id, RowAt(req[p].file, idx[p])))]
  /\ nextId' = nextId + 1
  /\ inserted' = [inserted EXCEPT ![p] = inserted[p] + 1]
  /\ idx' = [idx EXCEPT ![p] = idx[p] + 1]
  /\ pc' = [pc EXCEPT ![p] = "row"]
  /\ UNCHANGED <<store, req, resp, nreq, last, rerun, abortedIds>>

\* db.commit() and the response; the request's locals are gone after it
ImportCommit(p) ==
  /\ pc[p] = "commit"
  /\ store' = Commit(store, pending[p])
  /\ pending' = [pending EXCEPT ![p] = <<>>]
  /\ resp' = [resp EXCEPT ![p] = [status |-> 200, detail |-> "",
                                  source_csv |-> req[p].path,
                                  inserted_apartments |-> inserted[p]]]
  /\ \E again \in {FALSE, nreq < MaxReq} :
       last' = IF again
                 THEN <<[user_id |-> req[p].user_id, path |-> req[p].path, file |-> req[p].file]>>
                 ELSE <<>>
  /\ rerun' = (last # <<>>)
  /\ req' = [req EXCEPT ![p] = NoReq]
  /\ idx' = [idx EXCEPT ![p] = 0]
  /\ inserted' = [inserted EXCEPT ![p] = 0]
  /\ pc' = [pc EXCEPT ![p] = "idle"]
  /\ UNCHANGED <<nextId, nreq, abortedIds>>

\* ------------------------------------------------------------------ paths
PICTURES_ROOT == <<"/", "srv", "/", "homepass", "/", "pictures">>
PICTURES_URL_BASE == <<"http://jumbo.galagen.net:2205", "/", "pictures">>

Atoms == {"/", ".", "pictures", "PICTURES", "srv", "homepass", "a"}

\* str.lower() on the atoms of the model
Lower(a) == IF a = "PICTURES" THEN "pictures" ELSE a

RECURSIVE LeadingSlashes(_)
LeadingSlashes(v) == IF v # <<>> /\ Head(v) = "/" THEN 1 + LeadingSlashes(Tail(v)) ELSE 0

\* pathlib.PurePosixPath(value): the root ("", "/" or "//") and the parts after
\* it; empty segments and "." segments are dropped, ".." is kept.
PosixPath(v) ==
  [root |-> IF LeadingSlashes(v) = 0 THEN <<>>
            ELSE IF LeadingSlashes(v) = 2 THEN <<"/", "/">>
            ELSE <<"/">>,
   parts |-> SelectSeq(v, LAMBDA a : a # "/" /\ a # ".")]

IsAbsolute(path) == path.root # <<>>

IsPrefix(s, t) == Len(s) <= Len(t) /\ SubSeq(t, 1, Len(s)) = s

\* candidate.relative_to(PICTURES_ROOT), or the candidate itself on ValueError
RelativeToRoot(path) ==
  LET rootPath == PosixPath(PICTURES_ROOT) IN
  IF path.root = rootPath.root /\ IsPrefix(rootPath.parts, path.parts)
    THEN [root |-> <<>>,
          parts |-> SubSeq(path.parts, Len(rootPath.parts) + 1, Len(path.parts))]
    ELSE path

\* [part for part in candidate.as_posix().split("/") if part]: the path without
\* root and without parts prints as "."
PosixSegments(path) ==
  IF path.root = <<>> /\ path.parts = <<>> THEN <<".">> ELSE path.parts

RECURSIVE Join(_)
Join(parts) ==
  IF Len(parts) <= 1 THEN parts ELSE <<Head(parts), "/">> \o Join(Tail(parts))

DropPicturesPrefix(parts) ==
  IF parts # <<>> /\ Lower(Head(parts)) = "pictures" THEN Tail(parts) ELSE parts

\* _resolve_image_url: None, or Some(the URL)
ResolveImageUrl(value) ==
  IF value = None \/ value[1] = <<>> THEN None
  ELSE LET candidate == IF IsAbsolute(PosixPath(value[1]))
                          THEN RelativeToRoot(PosixPath(value[1]))
                          ELSE PosixPath(value[1])
           parts == DropPicturesPrefix(PosixSegments(candidate))
       IN IF parts = <<>> THEN None
          ELSE Some(PICTURES_URL_BASE \o <<"/">> \o Join(parts))

\* The path portion of a resolved URL: "/pictures/<segments>"
PathPortion(url) == Tail(url)

\* The well-formed atom sequences of exactly n atoms: no two runs of
\* non-separator characters are adjacent
NextAtoms(q) == IF q = <<>> \/ q[Len(q)] = "/" THEN Atoms ELSE {"/"}

RECURSIVE PathsOfLen(_)
PathsOfLen(n) ==
  IF n = 0 THEN {<<>>}
  ELSE UNION {{Append(q, a) : a \in NextAtoms(q)} : q \in PathsOfLen(n - 1)}

PathsUpTo(m) == UNION {PathsOfLen(n) : n \in 0..m}

\* ------------------------------------------------------------------ resolver calls
VARIABLES
  rin,     \* the value _resolve_image_url is called with
  rout,    \* what it returned
  rfirst,  \* history: what it returned for the path the URL came from
  rphase   \* "call": not called yet, "out": called, "again": called on the URL's path

resolverVars == <<rin, rout, rfirst, rphase>>

ResolverIdle == rin = None /\ rout = None /\ rfirst = None /\ rphase = "off"

ResolverInit ==
  /\ rin \in {None} \cup {Some(q) : q \in PathsUpTo(MaxPathLen)}
  /\ rout = None
  /\ rfirst = None
  /\ rphase = "call"

Resolve ==
  /\ rphase = "call"
  /\ rout' = ResolveImageUrl(rin)
  /\ rphase' = "out"
  /\ UNCHANGED <<rin, rfirst>>

\* The path portion of the URL is stored and resolved again
ResolveAgain ==
  /\ rphase = "out"
  /\ rout # None
  /\ rin' = Some(PathPortion(rout[1]))
  /\ rfirst' = rout
  /\ rout' = ResolveImageUrl(Some(PathPortion(rout[1])))
  /\ rphase' = "again"

\* ------------------------------------------------------------------ enricher
VARIABLES
  pictures,   \* table pictures: pictures[i] is the picture with id i
  picsRoot,   \* whether the directory PICTURES_ROOT exists
  houses      \* the rows the last read endpoint returned

enrichVars == <<pictures, picsRoot, houses>>

vars == <<importVars, resolverVars, enrichVars>>

PicturePaths == {None, Some(<<"pictures">>), Some(<<"a">>), Some(<<"PICTURES", "/", "b">>)}

\* Mutant of PictureBefore: the primary flag is left out of the order
PictureBeforeById(table, i, j) == i < j

\* ORDER BY is_primary DESC, id: whether picture i comes before picture j
PictureBefore(table, i, j) ==
  \/ table[i].is_primary /\ ~table[j].is_primary
  \/ table[i].is_primary = table[j].is_primary /\ i < j

\* The pictures ids of table in the order of the query
RECURSIVE OrderPictures(_, _)
OrderPictures(table, ids) ==
  IF ids = {} THEN <<>>
  ELSE LET first == CHOOSE i \in ids : \A j \in ids \ {i} : PictureBefore(table, i, j)
       IN <<first>> \o OrderPictures(table, ids \ {first})

\* ORDER BY id
RECURSIVE OrderById(_)
OrderById(ids) ==
  IF ids = {} THEN <<>>
  ELSE LET first == CHOOSE i \in ids : \A j \in ids : i <= j
       IN <<first>> \o OrderById(ids \ {first})

\* _get_image_paths
GetImagePaths(table, apartment_id) ==
  LET ids == {i \in DOMAIN table : table[i].apartment_id = apartment_id}
      ordered == OrderPictures(table, ids)
  IN [k \in 1..Len(ordered) |-> table[ordered[k]].file_path]

\* [p for p in (_resolve_image_url(r) for r in raw_paths) if p]
ResolvedImages(raw_paths) ==
  LET urls == [k \in 1..Len(raw_paths) |-> ResolveImageUrl(raw_paths[k])]
      kept == SelectSeq(urls, LAMBDA u : u # None)
  IN [k \in 1..Len(kept) |-> kept[k][1]]

\* One row of the SELECT of get_houses and get_user_houses
HouseRow(l) ==
  [id |-> l.id, name |-> l.name, address |-> l.adress, area |-> l.area,
   cost |-> l.cost, tokens |-> l.tokens, type |-> l.type, images |-> <<>>]

\* _attach_images
AttachImages(table, rows) ==
  [k \in 1..Len(rows) |->
     [rows[k] EXCEPT !.images = ResolvedImages(GetImagePaths(table, rows[k].id))]]

\* ORDER BY id LIMIT n over the listings in table
SelectHouses(table, n) ==
  LET byId == OrderById({l.id : l \in table})
      m == IF n < Len(byId) THEN n ELSE Len(byId)
  IN [k \in 1..m |-> HouseRow(CHOOSE l \in table : l.id = byId[k])]

Limits == {1, 10}

\* ensure_pictures_available: returns at once when the root exists; otherwise
\* the copy creates the root when the local source directory exists
EnsurePicturesAvailable ==
  IF picsRoot THEN picsRoot' = picsRoot
  ELSE \E sourceExists \in BOOLEAN : picsRoot' = sourceExists

\* GET /houses
GetHouses ==
  /\ EnsurePicturesAvailable
  /\ \E n \in Limits :
       /\ houses' = AttachImages(pictures, SelectHouses(store, n))
  /\ UNCHANGED <<importVars, resolverVars, pictures>>

\* GET /user_houses
GetUserHouses ==
  /\ EnsurePicturesAvailable
  /\ \E user_id \in UserIds, n \in Limits :
       /\ houses' = AttachImages(pictures,
                                 SelectHouses({l \in store : l.user_id = user_id}, n))
  /\ UNCHANGED <<importVars, resolverVars, pictures>>

EnrichIdle == pictures = <<>> /\ picsRoot = FALSE /\ houses = <<>>

\* The listings of a store the imports can have built: listing i comes from RowA
\* or RowB, for the first or the second user
SeedListing(i) == NewListing(i, ((i - 1) % Cardinality(Users)) + 1,
                             IF i % 2 = 1 THEN RowA ELSE RowB)

\* A picture belongs to a listing of the store
PictureRecords(k) ==
  [apartment_id : 1..k, file_path : PicturePaths, is_primary : BOOLEAN]

EnrichInit ==
  /\ \E k \in 0..MaxListings :
       /\ store = {SeedListing(i) : i \in 1..k}
       /\ pictures \in UNION {[1..n -> PictureRecords(k)] : n \in 0..MaxPics}
  /\ nextId = MaxListings + 1
  /\ pc = [p \in Workers |-> "idle"]
  /\ req = [p \in Workers |-> NoReq]
  /\ idx = [p \in Workers |-> 0]
  /\ inserted = [p \in Workers |-> 0]
  /\ pending = [p \in Workers |-> <<>>]
  /\ resp = [p \in Workers |-> NoResp]
  /\ nreq = 0
  /\ last = <<>>
  /\ rerun = FALSE
  /\ abortedIds = {}
  /\ picsRoot = FALSE
  /\ houses = <<>>

\* ------------------------------------------------------------------ specifications
\* Imports one at a time: the server takes the next request when the last one
\* has been answered.
Init == ImportInit /\ ResolverIdle /\ EnrichIdle

Next ==
  \/ ImportCsvBegin(1, Files, TRUE) /\ UNCHANGED <<resolverVars, enrichVars>>
  \/ ImportRow(1) /\ UNCHANGED <<resolverVars, enrichVars>>
  \/ ImportInsert(1) /\ UNCHANGED <<resolverVars, enrichVars>>
  \/ ImportCommit(1) /\ UNCHANGED <<resolverVars, enrichVars>>

Spec == Init /\ [][Next]_vars

\* Imports served concurrently by two workers, each on its own connection
NextConc ==
  \E p \in Workers :
    \/ ImportCsvBegin(p, ConcFiles, FALSE) /\ UNCHANGED <<resolverVars, enrichVars>>
    \/ ImportRow(p) /\ UNCHANGED <<resolverVars, enrichVars>>
    \/ ImportInsert(p) /\ UNCHANGED <<resolverVars, enrichVars>>
    \/ ImportCommit(p) /\ UNCHANGED <<resolverVars, enrichVars>>

SpecConc == Init /\ [][NextConc]_vars

\* Calls of the resolver on the paths of the model
InitResolver == ImportInit /\ ResolverInit /\ EnrichIdle

NextResolver ==
  \/ Resolve /\ UNCHANGED <<importVars, enrichVars>>
  \/ ResolveAgain /\ UNCHANGED <<importVars, enrichVars>>

SpecResolver == InitResolver /\ [][NextResolver]_vars

\* The read endpoints over a store and a pictures table
InitEnrich == EnrichInit /\ ResolverIdle

NextEnrich == GetHouses \/ GetUserHouses

SpecEnrich == InitEnrich /\ [][NextEnrich]_vars


\* ------------------------------------------------------------------ claims
SameKey(l1, l2) == l1.name = l2.name /\ l1.adress = l2.adress /\ l1.user_id = l2.user_id

NoDuplicates(table) == \A l1, l2 \in table : SameKey(l1, l2) => l1 = l2

\* Worker p's request ends with the commit in this step
Commits(p) == pc[p] = "commit" /\ pc'[p] = "idle"

\* Worker p's request ends in this step with an exception
Aborts(p) == pc[p] = "row" /\ pc'[p] = "idle"

\* The rows of file that pass the validation of the loop
ValidRows(file) == {i \in 1..Len(file) : RowOutcome(RowAt(file, i)) = "valid"}

SameNameAddress(file, i, j) ==
  /\ RowName(RowAt(file, i)) = RowName(RowAt(file, j))
  /\ RowAddress(RowAt(file, i)) = RowAddress(RowAt(file, j))

KeyExists(table, file, i, user_id) ==
  \E l \in table : /\ l.name = RowName(RowAt(file, i))
                   /\ l.adress = RowAddress(RowAt(file, i))
                   /\ l.user_id = user_id

\* C1: with imports one at a time, no two listings share (name, address, owner),
\* neither among the committed listings nor among the rows an import sees while
\* it runs (a key that is twice in one file is inserted once).
C1_UniqueListings == NoDuplicates(store) /\ \A p \in Workers : NoDuplicates(Visible(p))

\* C1 witness: an import has processed a file holding the same key in two valid
\* rows, next to listings committed before, and inserted the key once.
C1_Witness ==
  /\ pc[1] = "commit"
  /\ store # {}
  /\ inserted[1] = 1
  /\ \E i, j \in ValidRows(req[1].file) : i < j /\ SameNameAddress(req[1].file, i, j)

\* C2: the same request again, right after its commit, inserts nothing, leaves
\* the listings as they are, raises nothing and answers 200 with
\* inserted_apartments = 0.
C2_RerunInsertsNothing ==
  [][\A p \in Workers :
       (last # <<>> /\ pc[p] # "idle") =>
         /\ pc'[p] # "insert"
         /\ store' = store
         /\ pc'[p] = "idle" => /\ resp'[p].status = 200
                               /\ resp'[p].inserted_apartments = 0]_vars

\* C2 witness: the second run of an import that had inserted listings has
\* committed and answered 0.
C2_Witness ==
  /\ rerun
  /\ store # {}
  /\ resp[1].status = 200
  /\ resp[1].inserted_apartments = 0

\* C3: under concurrent imports the INSERT of a row whose lookup found nothing
\* is carried out whatever the other worker has inserted or committed since the
\* lookup: the row joins the transaction and the counter grows.
C3_InsertAfterLookupUnguarded ==
  [][\A p \in Workers :
       (pc[p] = "insert" /\ pc'[p] # "insert") =>
         /\ Len(pending'[p]) = Len(pending[p]) + 1
         /\ KeyExists({pending'[p][Len(pending'[p])]}, req[p].file, idx[p], req[p].user_id)
         /\ inserted'[p] = inserted[p] + 1]_vars

\* C3 witness: two committed listings with the same (name, address, owner).
C3_Witness == \E l1, l2 \in store : l1.id # l2.id /\ SameKey(l1, l2)

\* C4: the listings change only at the single commit that ends an import, which
\* publishes every row the import inserted, so that every valid row of the file
\* has its listing; an import that ends in an exception publishes nothing, and
\* no row it inserted is ever a listing.
C4_AllOrNothing ==
  [][/\ \A p \in Workers :
          /\ Aborts(p) => store' = store /\ pending'[p] = <<>>
          /\ Commits(p) =>
               /\ store' = store \cup Range(pending[p])
               /\ \A i \in ValidRows(req[p].file) :
                    KeyExists(store', req[p].file, i, req[p].user_id)
     /\ store' # store => \E p \in Workers : Commits(p)
     /\ \A l \in store' : l.id \notin abortedIds']_vars

\* C4 witness: an import failed after it had inserted rows, and another import
\* has committed listings.
C4_Witness == abortedIds # {} /\ store # {} /\ resp[1].status = 500

\* C5 (as claimed): an import whose owner and file exist never ends in an
\* exception, and when the loop is through every valid row of the file has its
\* listing among the rows the import sees.
C5_ImportNeverRaises ==
  \A p \in Workers :
    /\ resp[p].status # 500
    /\ pc[p] = "commit" =>
         \A i \in ValidRows(req[p].file) :
           KeyExists(Visible(p), req[p].file, i, req[p].user_id)

\* The rows the claim counts: valid, their key in no listing before the import,
\* and in no earlier row of the file
FreshRowsAnyEarlier(file, user_id, before) ==
  {i \in ValidRows(file) :
     /\ ~KeyExists(before, file, i, user_id)
     /\ \A j \in 1..(i - 1) : ~SameNameAddress(file, j, i)}

\* The same, with only the earlier rows that are valid themselves
FreshRowsValidEarlier(file, user_id, before) ==
  {i \in ValidRows(file) :
     /\ ~KeyExists(before, file, i, user_id)
     /\ \A j \in ValidRows(file) : j < i => ~SameNameAddress(file, j, i)}

\* C6 (as claimed): the count returned is the number of listings added, and the
\* number of valid rows whose key is in no listing before the import and in no
\* earlier row of the file.
C6_CountAnyEarlierRow ==
  [][\A p \in Workers :
       Commits(p) =>
         /\ resp'[p].inserted_apartments = Cardinality(store') - Cardinality(store)
         /\ resp'[p].inserted_apartments =
              Cardinality(FreshRowsAnyEarlier(req[p].file, req[p].user_id, store))]_vars

\* C6 (amended): the count returned is the number of listings added, and the
\* number of valid rows whose key is in no listing before the import and in no
\* earlier valid row of the file.
C6_CountValidEarlierRow ==
  [][\A p \in Workers :
       Commits(p) =>
         /\ resp'[p].inserted_apartments = Cardinality(store') - Cardinality(store)
         /\ resp'[p].inserted_apartments =
              Cardinality(FreshRowsValidEarlier(req[p].file, req[p].user_id, store))]_vars

\* C6 witness: an import is through a file in which a malformed row comes before
\* a valid row of the same name and address, with listings committed before, and
\* has counted that valid row.
C6_Witness ==
  /\ pc[1] = "commit"
  /\ store # {}
  /\ inserted[1] >= 1
  /\ \E i \in ValidRows(req[1].file) :
       /\ ~KeyExists(store, req[1].file, i, req[1].user_id)
       /\ \E j \in 1..(i - 1) : j \notin ValidRows(req[1].file) /\ SameNameAddress(req[1].file, j, i)

\* What a failed request leaves alone
Untouched(p) ==
  /\ store' = store
  /\ nextId' = nextId
  /\ pending'[p] = pending[p]
  /\ pc'[p] = "idle"

\* C7: a request whose owner does not exist is answered 404 "User not found",
\* whether or not the file exists; one whose owner exists and whose resolved path
\* does not is answered 404 for that path; both leave the store and the
\* transaction untouched, and only a request that passes both starts the pipeline.
C7_NotFoundChecks ==
  [][\A p \in Workers :
       (pc[p] = "idle" /\ nreq' # nreq /\ req'[p] # req[p]) =>
         IF req'[p].user_id \notin Users
           THEN resp'[p].status = 404 /\ resp'[p].detail = "User not found" /\ Untouched(p)
         ELSE IF ~req'[p].exists
           THEN /\ resp'[p].status = 404 /\ resp'[p].detail = "path not found"
                /\ resp'[p].source_csv = req'[p].path
                /\ Untouched(p)
         ELSE pc'[p] = "row" /\ store' = store]_vars

\* C7 witness: a request for an unknown owner and a missing file was answered
\* "User not found", with listings in the store.
C7_Witness ==
  /\ pc[1] = "idle"
  /\ req[1].user_id \notin Users
  /\ req[1].user_id # 0
  /\ ~req[1].exists
  /\ resp[1].status = 404
  /\ resp[1].detail = "User not found"
  /\ store # {}

\* C8 (as claimed): every listing the pipeline inserts has a non-empty trimmed
\* name and address, a non-negative area, 0 tokens, and the owner of the request.
C8_ListingDataModel ==
  /\ \A l \in store \cup UNION {Range(pending[p]) : p \in Workers} :
       /\ l.name # <<>> /\ Strip(l.name) = l.name
       /\ l.adress # <<>> /\ Strip(l.adress) = l.adress
       /\ l.area >= 0
       /\ l.tokens = 0
       /\ l.user_id \in Users
  /\ \A p \in Workers : \A l \in Range(pending[p]) : l.user_id = req[p].user_id


\* Picture i is due before picture j: primary pictures first, then by id
DueBefore(table, i, j) ==
  IF table[i].is_primary = table[j].is_primary THEN i < j ELSE table[i].is_primary

\* The pictures of a listing whose path resolves to a URL
Resolvable(table, id) ==
  {i \in DOMAIN table : table[i].apartment_id = id /\ ResolveImageUrl(table[i].file_path) # None}

\* images lists the resolved URLs of exactly the resolvable pictures of listing
\* id, in the due order
ImagesOf(table, id, images) ==
  /\ Len(images) = Cardinality(Resolvable(table, id))
  /\ \E f \in [1..Len(images) -> Resolvable(table, id)] :
       /\ \A k \in 1..Len(images) : Some(images[k]) = ResolveImageUrl(table[f[k]].file_path)
       /\ \A k, m \in 1..Len(images) : k < m => DueBefore(table, f[k], f[m])

\* C9: after a read endpoint has run, every row it returns carries the resolved
\* URLs of that listing's own resolvable pictures, primary first and then by id,
\* and the call leaves listings and pictures as they were.
C9_AttachImages ==
  [][/\ \A k \in 1..Len(houses') : ImagesOf(pictures, houses'[k].id, houses'[k].images)
     /\ store' = store
     /\ pictures' = pictures]_vars

\* C9 witness: a returned row has two different images of its listing, the
\* picture of the higher id being the primary one.
C9_Witness ==
  \E k \in 1..Len(houses) :
    /\ Len(houses[k].images) = 2
    /\ \E i, j \in Resolvable(pictures, houses[k].id) :
         i < j /\ pictures[j].is_primary /\ ~pictures[i].is_primary
    /\ Some(houses[k].images[1]) # Some(houses[k].images[2])

\* The segments of a path as split("/") yields them, empty ones left out
Segments(v) == SelectSeq(v, LAMBDA a : a # "/")

\* C10 (as claimed): resolving the path portion of a resolved URL gives the same
\* URL again, and the resolver returns None for None, for the empty path and for
\* a path whose only segment is "pictures" in any letter case.
C10_ResolverIdempotent ==
  /\ rphase = "again" => rout = rfirst
  /\ (rphase = "out" /\ (rin = None \/ rin[1] = <<>>)) => rout = None
  /\ (rphase = "out" /\ rin # None /\ Len(Segments(rin[1])) = 1
        /\ Lower(Segments(rin[1])[1]) = "pictures") => rout = None

=============================================================================
